---- MODULE Spec2Model ----
(***************************************************************************)
(* Model of the two entry points of the Telegram fetch pipeline:           *)
(*   scripts/telegram_fetch.py  (the fetch run that emits the JSON         *)
(*                               document on standard output)              *)
(*   scripts/telegram_test.py   (the helper that drives authentication     *)
(*                               and reads a fixed list of channels)       *)
(* Both share the persisted session 'pulse_session'; telegram_test.py also *)
(* owns the pending-verification file 'pulse_code_hash.txt'.  A behaviour  *)
(* is a sequence of runs of either script over that persisted state.       *)
(***************************************************************************)
EXTENDS Integers, Sequences, FiniteSets, TLC

(***************************************************************************)
(* Bounds of the model                                                     *)
(***************************************************************************)
\* messages the remote service hands out during one run, over all channels
MaxMsgs == 2
\* exceptions raised by channel resolution / iteration during one run
MaxFail == 1
\* handles given on the command line
MaxArgs == 2
\* one-time codes the remote service issues over a whole behaviour
MaxHash == 2
MaxOld == 2
\* wall clock of a run, in hours (datetime.utcnow())
Now == 33

(***************************************************************************)
(* Program constants                                                       *)
(***************************************************************************)
\* timedelta(hours=24)
Window == 24
\* client.iter_messages(channel, limit=20) in telegram_fetch.py
FetchLimit == 20
\* client.iter_messages(channel, limit=10) in telegram_test.py
TestLimit == 10
\* for msg in messages[:3]
ShowCount == 3

\* Python's None as the value of msg.message / msg.text
None == "None"

\* handles a caller may pass on the command line
Handles == {"X", "Y"}
\* values of TELEGRAM_PHONE ('' is the unset default)
Phones == {"", "+1"}
\* values of TELEGRAM_CODE ('' is the unset default); "good" is the code the
\* service sent last, "bad" any other code
Codes == {"", "good", "bad"}
\* message bodies: absent, empty, non-empty
Texts == {None, "", "a"}
\* message dates (hours): one hour before the cutoff, at it, one hour after
Dates == {Now - Window - 1, Now - Window, Now - Window + 1}

DEFAULT_CHANNELS ==
  << [handle |-> "DeepStateUA",   region |-> "europe-russia", confidence |-> 92, tier |-> "official"],
     [handle |-> "DeepStateEN",   region |-> "europe-russia", confidence |-> 92, tier |-> "official"],
     [handle |-> "wartranslated", region |-> "europe-russia", confidence |-> 90, tier |-> "osint"],
     [handle |-> "DIUkraine",     region |-> "europe-russia", confidence |-> 95, tier |-> "official"],
     [handle |-> "idfofficial",   region |-> "middle-east",   confidence |-> 95, tier |-> "official"],
     [handle |-> "englishabuali", region |-> "middle-east",   confidence |-> 82, tier |-> "osint"],
     [handle |-> "IranIntl_En",   region |-> "middle-east",   confidence |-> 85, tier |-> "news-org"] >>

TEST_CHANNELS == << "DeepStateUA", "IranIntl_En", "AmwajMedia" >>

(***************************************************************************)
(* State                                                                   *)
(***************************************************************************)
VARIABLES
  \* persisted across runs
  sessionStore,    \* 'pulse_session': "Unauthenticated" or "Authenticated"
  codeHashFile,    \* 'pulse_code_hash.txt': << >> when absent, else << text >>
  \* the remote service
  remoteHash,      \* per phone, the handle of the code sent last (<< >>: none)
  hashCounter,     \* handles issued so far
  \* one run
  pc,              \* position of the running script ("idle" between runs)
  prog,            \* "fetch" or "test"
  env,             \* [lib, apiKey, phone, code]: library installed, API_ID and
                   \* API_HASH non-empty, PHONE, CODE
  argv,            \* sys.argv[1:]
  client,          \* "none", "connected" or "disconnected"
  channels,        \* the list iterated by the channel loop
  chIdx,           \* index of the channel being fetched
  examined,        \* messages the current iteration has yielded
  msg,             \* loop variable of the message loop
  results,         \* telegram_fetch.py: posts collected so far
  messages,        \* telegram_test.py: messages kept for the current channel
  cutoff,          \* datetime.utcnow() - timedelta(hours=24)
  sent,            \* telegram_test.py: the handle send_code_request returned
  phone_code_hash, \* telegram_test.py: the handle read from the file
  stdout,          \* what the run printed to standard output
  stderr,          \* what the run printed to standard error
  exitCode,        \* exit status (meaningful when pc = "exited")
  \* bookkeeping of the run, not read by the scripts
  origin,          \* origin[k]: index of the channel results[k] came from
  attempted,       \* indexes of the channels whose resolution was started
  failedAt,        \* << index, stage >> of the channels that raised, the stage
                   \* being "resolve" (get_entity) or "iter" (iter_messages)
  authCalls,       \* send_code_request / sign_in calls issued
  fileOps,         \* operations on 'pulse_code_hash.txt'
  opened,          \* TelegramClient objects connected
  msgCount,        \* messages yielded in this run
  authAtStart,     \* sessionStore when the run started
  fileAtStart      \* codeHashFile when the run started

persistent == << sessionStore, codeHashFile, remoteHash, hashCounter >>
runInput   == << prog, env, argv >>
loopVars   == << channels, chIdx, examined, msg, results, messages, cutoff,
                 origin, attempted, failedAt, msgCount >>
authVars   == << sent, phone_code_hash, authCalls, fileOps >>
ioVars     == << stdout, stderr, exitCode >>
vars == << sessionStore, codeHashFile, remoteHash, hashCounter, pc, prog, env,
           argv, client, channels, chIdx, examined, msg, results, messages,
           cutoff, sent, phone_code_hash, stdout, stderr, exitCode, origin,
           attempted, failedAt, authCalls, fileOps, opened, msgCount,
           authAtStart, fileAtStart >>

(***************************************************************************)
(* Pure helpers                                                            *)
(***************************************************************************)
\* sequences over S of length 0..n
RECURSIVE SeqUpTo(_, _)
SeqUpTo(S, n) ==
  IF n = 0 THEN { << >> }
  ELSE LET shorter == SeqUpTo(S, n - 1)
       IN  shorter \cup { Append(s, x) : s \in { t \in shorter : Len(t) = n - 1 }, x \in S }

\* sys.argv[1:]
ArgvLists == SeqUpTo(Handles, MaxArgs)

\* lines 46-50: caller-supplied handles become descriptors with the default
\* region/confidence/tier, in the order given; otherwise the built-in list
ResolveChannels(args) ==
  IF Len(args) > 0
  THEN [ i \in 1..Len(args) |->
           [handle |-> args[i], region |-> "all", confidence |-> 80, tier |-> "osint"] ]
  ELSE DEFAULT_CHANNELS

\* datetime.isoformat(): fixed-width, zero-padded decimal fields, most
\* significant first.  A date of the model is a number of hours below 100 and
\* its text is the two decimal digits; the constant suffix is left out.
IsoFormat(d) == << d \div 10, d % 10 >>

\* Python's < on str, here on sequences of digits
RECURSIVE StrLess(_, _)
StrLess(a, b) ==
  IF b = << >> THEN FALSE
  ELSE IF a = << >> THEN TRUE
  ELSE IF Head(a) # Head(b) THEN Head(a) < Head(b)
  ELSE StrLess(Tail(a), Tail(b))

\* <= in place of <: a message dated exactly at the cutoff is dropped
OlderThanCutoffInclusive(m, c) == m.date <= c

\* line 69: msg.date.replace(tzinfo=None) < cutoff
OlderThanCutoff(m, c) == m.date < c

\* a test for None only, which lets the empty string through
NoTextNoneOnly(m) == m.message = None

\* line 71: not msg.message
NoText(m) == m.message = None \/ m.message = ""

\* lines 74-84: the post built from a message of channel ch
Normalize(ch, m) ==
  [ id         |-> "telegram-" \o ch.handle \o "-" \o ToString(m.id),
    platform   |-> "telegram",
    handle     |-> ch.handle,
    region     |-> ch.region,
    confidence |-> ch.confidence,
    tier       |-> ch.tier,
    text       |-> m.message,
    timestamp  |-> IsoFormat(m.date),
    url        |-> "https://t.me/" \o ch.handle \o "/" \o ToString(m.id) ]

\* sorted() without reverse=True: ascending, equal keys in input order
RECURSIVE InsertAsc(_, _)
InsertAsc(p, s) ==
  IF s = << >> THEN << p >>
  ELSE IF StrLess(p.timestamp, Head(s).timestamp)
       THEN << p >> \o s
       ELSE << Head(s) >> \o InsertAsc(p, Tail(s))

RECURSIVE SortedPostsAscending(_)
SortedPostsAscending(res) ==
  IF res = << >> THEN << >>
  ELSE InsertAsc(res[Len(res)], SortedPostsAscending(SubSeq(res, 1, Len(res) - 1)))

\* an insertion that puts p before the elements with an equal key
RECURSIVE InsertDescBeforeEqual(_, _)
InsertDescBeforeEqual(p, s) ==
  IF s = << >> THEN << p >>
  ELSE IF ~ StrLess(p.timestamp, Head(s).timestamp)
       THEN << p >> \o s
       ELSE << Head(s) >> \o InsertDescBeforeEqual(p, Tail(s))

\* one step of sorted(..., reverse=True): p goes after every element whose
\* key is not less than p's, so equal keys keep their input order
RECURSIVE InsertDesc(_, _)
InsertDesc(p, s) ==
  IF s = << >> THEN << p >>
  ELSE IF StrLess(Head(s).timestamp, p.timestamp)
       THEN << p >> \o s
       ELSE << Head(s) >> \o InsertDesc(p, Tail(s))

\* line 96: sorted(results, key=lambda x: x['timestamp'], reverse=True)
RECURSIVE SortedPosts(_)
SortedPosts(res) ==
  IF res = << >> THEN << >>
  ELSE InsertDesc(res[Len(res)], SortedPosts(SubSeq(res, 1, Len(res) - 1)))

\* a document whose channel_count leaves out the channels that raised
OutputCountsSucceeded(chs, res) ==
  [ fetched_at    |-> IsoFormat(Now),
    channel_count |-> Len(chs) - Cardinality(failedAt),
    post_count    |-> Len(res),
    posts         |-> SortedPosts(res) ]

\* lines 92-97: the output document
Output(chs, res) ==
  [ fetched_at    |-> IsoFormat(Now),
    channel_count |-> Len(chs),
    post_count    |-> Len(res),
    posts         |-> SortedPosts(res) ]

\* stderr lines
FatalLine(text) == [line |-> text, handle |-> ""]
ErrorLine(h)    == [line |-> "Error fetching", handle |-> h]
Traceback       == [line |-> "Traceback", handle |-> ""]

\* the text of the n-th verification handle the service issues
HashText(n) == << "h", ToString(n) >>

\* str.strip(): leading and trailing whitespace removed
RECURSIVE LStrip(_)
LStrip(s) ==
  IF s # << >> /\ Head(s) \in {" ", "\n"} THEN LStrip(Tail(s)) ELSE s

RECURSIVE RStrip(_)
RStrip(s) ==
  IF s # << >> /\ s[Len(s)] \in {" ", "\n"} THEN RStrip(SubSeq(s, 1, Len(s) - 1)) ELSE s

Strip(s) == RStrip(LStrip(s))

\* telegram_test.py line 130: message.date.replace(tzinfo=None) > cutoff
NewerThanCutoff(m, c) == m.date > c

\* telegram_test.py lines 137-142: the messages shown for a channel
RECURSIVE Shown(_)
Shown(ms) ==
  IF ms = << >> THEN << >>
  ELSE << IF NoText(Head(ms)) THEN "(media/no text)" ELSE Head(ms).message >>
       \o Shown(Tail(ms))

TLine(text) == [line |-> text]

NoMsg == [id |-> 0, date |-> 0, message |-> None]

NoEnv == [lib |-> FALSE, apiKey |-> FALSE, phone |-> "", code |-> ""]

\* the state of a process that has not started
FreshRun ==
  /\ prog = "none" /\ env = NoEnv /\ argv = << >>
  /\ client = "none" /\ channels = << >> /\ chIdx = 0 /\ examined = 0
  /\ msg = NoMsg /\ results = << >> /\ messages = << >> /\ cutoff = 0
  /\ phone_code_hash = << >> /\ sent = << >> /\ stdout = << >> /\ stderr = << >> /\ exitCode = 0
  /\ origin = << >> /\ attempted = {} /\ failedAt = {} /\ authCalls = << >>
  /\ fileOps = << >> /\ opened = 0 /\ msgCount = 0
  /\ authAtStart = "Unauthenticated" /\ fileAtStart = << >>

Init ==
  /\ sessionStore = "Unauthenticated"
  /\ codeHashFile = << >>
  /\ remoteHash = [p \in Phones \ {""} |-> << >>]
  /\ hashCounter = 0
  /\ pc = "idle"
  /\ FreshRun

\* what the persisted state and the remote service look like is left alone
\* by everything except the authentication steps of telegram_test.py

(***************************************************************************)
(* Starting and ending a run                                               *)
(***************************************************************************)
\* the operator starts a script with some environment and arguments.
\* telegram_fetch.py reads neither TELEGRAM_PHONE nor TELEGRAM_CODE, and
\* telegram_test.py reads no arguments.
StartRun ==
  /\ pc = "idle"
  /\ \E p \in {"fetch", "test"}, l \in BOOLEAN, k \in BOOLEAN,
        ph \in Phones, c \in Codes, a \in ArgvLists :
        /\ p = "fetch" => (ph = "" /\ c = "")
        /\ p = "test" => a = << >>
        /\ prog' = p
        /\ env' = [lib |-> l, apiKey |-> k, phone |-> ph, code |-> c]
        /\ argv' = a
        /\ pc' = IF p = "fetch" THEN "f_import" ELSE "t_keys"
  /\ authAtStart' = sessionStore
  /\ fileAtStart' = codeHashFile
  /\ UNCHANGED << persistent, client, loopVars, authVars, ioVars, opened >>

\* the process is gone; nothing of it is left but the persisted state
EndRun ==
  /\ pc = "exited"
  /\ pc' = "idle"
  /\ prog' = "none" /\ env' = NoEnv /\ argv' = << >>
  /\ client' = "none" /\ channels' = << >> /\ chIdx' = 0 /\ examined' = 0
  /\ msg' = NoMsg /\ results' = << >> /\ messages' = << >> /\ cutoff' = 0
  /\ phone_code_hash' = << >> /\ sent' = << >>
  /\ stdout' = << >> /\ stderr' = << >> /\ exitCode' = 0
  /\ origin' = << >> /\ attempted' = {} /\ failedAt' = {} /\ authCalls' = << >>
  /\ fileOps' = << >> /\ opened' = 0 /\ msgCount' = 0
  /\ authAtStart' = "Unauthenticated" /\ fileAtStart' = << >>
  /\ UNCHANGED persistent

\* an uncaught exception: the interpreter prints the traceback to standard
\* error and exits with status 1
Crash ==
  /\ stderr' = Append(stderr, Traceback)
  /\ exitCode' = 1
  /\ pc' = "exited"

\* the k-th newest message of a channel (k = 0 is the newest); ids are unique
\* within a channel and decrease with age
MsgId(k) == MaxMsgs - k

(***************************************************************************)
(* telegram_fetch.py                                                       *)
(***************************************************************************)
\* lines 39-43
FetchImport ==
  /\ pc = "f_import"
  /\ IF env.lib
     THEN /\ pc' = "f_channels"
          /\ UNCHANGED ioVars
     ELSE /\ stderr' = Append(stderr, FatalLine("telethon not installed"))
          /\ exitCode' = 1
          /\ pc' = "exited"
          /\ UNCHANGED stdout
  /\ UNCHANGED << persistent, runInput, client, loopVars, authVars, opened, authAtStart, fileAtStart >>

\* lines 45-50
FetchChannels ==
  /\ pc = "f_channels"
  /\ channels' = ResolveChannels(argv)
  /\ pc' = "f_client"
  /\ UNCHANGED << persistent, runInput, client, chIdx, examined, msg, results,
                  messages, cutoff, origin, attempted, failedAt, msgCount,
                  authVars, ioVars, opened, authAtStart, fileAtStart >>

\* lines 53-54: int(API_ID) raises on an empty API_ID, TelegramClient on an
\* empty API_HASH; connect() raises when the service cannot be reached
FetchClient ==
  /\ pc = "f_client"
  /\ \/ /\ env.apiKey
        /\ client' = "connected"
        /\ opened' = opened + 1
        /\ pc' = "f_auth"
        /\ UNCHANGED ioVars
     \/ /\ Crash
        /\ UNCHANGED << client, opened, stdout >>
  /\ UNCHANGED << persistent, runInput, loopVars, authVars, authAtStart, fileAtStart >>

\* lines 56-58
FetchAuth ==
  /\ pc = "f_auth"
  /\ IF sessionStore = "Authenticated"
     THEN /\ pc' = "f_init"
          /\ UNCHANGED ioVars
     ELSE /\ stderr' = Append(stderr, FatalLine("not authorized - run telegram_test.py first"))
          /\ exitCode' = 1
          /\ pc' = "exited"
          /\ UNCHANGED stdout
  /\ UNCHANGED << persistent, runInput, client, loopVars, authVars, opened, authAtStart, fileAtStart >>

\* lines 60-63
FetchInit ==
  /\ pc = "f_init"
  /\ results' = << >>
  /\ cutoff' = Now - Window
  /\ chIdx' = 1
  /\ pc' = "f_resolve"
  /\ UNCHANGED << persistent, runInput, client, channels, examined, msg, messages,
                  origin, attempted, failedAt, msgCount, authVars, ioVars,
                  opened, authAtStart, fileAtStart >>

\* the for loop moves to the next descriptor, or ends; the message loop
\* variable is not read again before it is bound anew
FetchNextChannel ==
  /\ msg' = NoMsg
  /\ chIdx' = chIdx + 1
  /\ examined' = 0
  /\ pc' = IF chIdx + 1 > Len(channels) THEN "f_disconnect" ELSE "f_resolve"

\* the handler prints the error with a plain print(), to standard output
FetchExceptToStdout(stage) ==
  /\ stdout' = Append(stdout, ErrorLine(channels[chIdx].handle))
  /\ failedAt' = failedAt \cup {<< chIdx, stage >>}
  /\ FetchNextChannel
  /\ UNCHANGED << stderr, exitCode >>

\* the handler swallows the exception without a message
FetchExceptSilent(stage) ==
  /\ failedAt' = failedAt \cup {<< chIdx, stage >>}
  /\ FetchNextChannel
  /\ UNCHANGED << stdout, stderr, exitCode >>

\* lines 86-87: the handler of the channel's try block
FetchExcept(stage) ==
  /\ stderr' = Append(stderr, ErrorLine(channels[chIdx].handle))
  /\ failedAt' = failedAt \cup {<< chIdx, stage >>}
  /\ FetchNextChannel
  /\ UNCHANGED << stdout, exitCode >>

\* a new client is created and connected for every channel
FetchGetEntityReconnects ==
  /\ pc = "f_resolve"
  /\ attempted' = attempted \cup {chIdx}
  /\ examined' = 0
  /\ opened' = opened + 1
  /\ pc' = "f_iter"
  /\ UNCHANGED << persistent, runInput, client, channels, chIdx, msg, results,
                  messages, cutoff, origin, failedAt, msgCount, authVars, ioVars,
                  authAtStart, fileAtStart >>

\* lines 64-66, get_entity returns
FetchGetEntity ==
  /\ pc = "f_resolve"
  /\ attempted' = attempted \cup {chIdx}
  /\ examined' = 0
  /\ pc' = "f_iter"
  /\ UNCHANGED << persistent, runInput, client, channels, chIdx, msg, results,
                  messages, cutoff, origin, failedAt, msgCount, authVars, ioVars,
                  opened, authAtStart, fileAtStart >>

\* get_entity raises and the exception ends the channel loop
FetchGetEntityFailAborts ==
  /\ pc = "f_resolve"
  /\ Cardinality(failedAt) < MaxFail
  /\ attempted' = attempted \cup {chIdx}
  /\ stderr' = Append(stderr, ErrorLine(channels[chIdx].handle))
  /\ failedAt' = failedAt \cup {<< chIdx, "resolve" >>}
  /\ pc' = "f_disconnect"
  /\ UNCHANGED << persistent, runInput, client, channels, chIdx, examined, msg,
                  results, messages, cutoff, origin, msgCount, authVars, stdout,
                  exitCode, opened, authAtStart, fileAtStart >>

\* lines 64-66 and 86-87, get_entity raises
FetchGetEntityFail ==
  /\ pc = "f_resolve"
  /\ Cardinality(failedAt) < MaxFail
  /\ attempted' = attempted \cup {chIdx}
  /\ FetchExcept("resolve")
  /\ UNCHANGED << persistent, runInput, client, channels, results, messages,
                  cutoff, origin, msgCount, authVars, opened, authAtStart, fileAtStart >>

\* the iterator takes no limit and yields as long as the channel has messages
FetchIterHasNextUnlimited == TRUE

\* line 68, limit=20: the iterator yields at most FetchLimit messages
FetchIterHasNext == examined < FetchLimit

\* line 68, the iterator yields the next message, newest first; the channels
\* of the run hold at most budget messages, with these dates and texts
FetchYield(budget, dates, texts) ==
  /\ pc = "f_iter"
  /\ FetchIterHasNext
  /\ msgCount < budget
  /\ \E d \in dates, t \in texts :
        msg' = [id |-> MsgId(examined), date |-> d, message |-> t]
  /\ examined' = examined + 1
  /\ msgCount' = msgCount + 1
  /\ pc' = "f_body"
  /\ UNCHANGED << persistent, runInput, client, channels, chIdx, results, messages,
                  cutoff, origin, attempted, failedAt, authVars, ioVars, opened,
                  authAtStart, fileAtStart >>

FetchIterNext == FetchYield(MaxMsgs, Dates, Texts)

\* lines 69-84
FetchBody ==
  /\ pc = "f_body"
  /\ IF OlderThanCutoff(msg, cutoff) \/ NoText(msg)
     THEN UNCHANGED << results, origin >>
     ELSE /\ results' = Append(results, Normalize(channels[chIdx], msg))
          /\ origin' = Append(origin, chIdx)
  /\ pc' = "f_iter"
  /\ UNCHANGED << persistent, runInput, client, channels, chIdx, examined, msg,
                  messages, cutoff, attempted, failedAt, msgCount, authVars,
                  ioVars, opened, authAtStart, fileAtStart >>

\* line 68, the iterator is exhausted (limit reached or no older message)
FetchIterEnd ==
  /\ pc = "f_iter"
  /\ FetchNextChannel
  /\ UNCHANGED << persistent, runInput, client, channels, results, messages,
                  cutoff, origin, attempted, failedAt, msgCount, authVars, ioVars,
                  opened, authAtStart, fileAtStart >>

\* the posts collected before the current channel
PostsBefore(n) == Cardinality({ i \in 1..Len(origin) : origin[i] < n })

\* the handler throws away what the failing channel had contributed
FetchIterRaiseDropsPosts ==
  /\ pc = "f_iter"
  /\ Cardinality(failedAt) < MaxFail
  /\ FetchExcept("iter")
  /\ results' = SubSeq(results, 1, PostsBefore(chIdx))
  /\ origin' = SubSeq(origin, 1, PostsBefore(chIdx))
  /\ UNCHANGED << persistent, runInput, client, channels, messages,
                  cutoff, attempted, msgCount, authVars, opened,
                  authAtStart, fileAtStart >>

\* line 68 and 86-87, the iterator raises
FetchIterRaise ==
  /\ pc = "f_iter"
  /\ Cardinality(failedAt) < MaxFail
  /\ FetchExcept("iter")
  /\ UNCHANGED << persistent, runInput, client, channels, results, messages,
                  cutoff, origin, attempted, msgCount, authVars, opened,
                  authAtStart, fileAtStart >>

\* line 89
FetchDisconnect ==
  /\ pc = "f_disconnect"
  /\ client' = "disconnected"
  /\ pc' = "f_output"
  /\ UNCHANGED << persistent, runInput, loopVars, authVars, ioVars, opened, authAtStart, fileAtStart >>

\* lines 92-99
FetchOutput ==
  /\ pc = "f_output"
  /\ stdout' = Append(stdout, Output(channels, results))
  /\ exitCode' = 0
  /\ pc' = "exited"
  /\ UNCHANGED << persistent, runInput, client, loopVars, authVars, stderr, opened,
                  authAtStart, fileAtStart >>

FetchStep ==
  \/ FetchImport \/ FetchChannels \/ FetchClient \/ FetchAuth \/ FetchInit
  \/ FetchGetEntity \/ FetchGetEntityFail \/ FetchIterNext \/ FetchBody
  \/ FetchIterEnd \/ FetchIterRaise \/ FetchDisconnect \/ FetchOutput

(***************************************************************************)
(* telegram_test.py                                                        *)
(***************************************************************************)
\* the script goes on without the API key pair
TestKeysNoCheck ==
  /\ pc = "t_keys"
  /\ pc' = "t_import"
  /\ UNCHANGED << persistent, runInput, client, loopVars, authVars, ioVars, opened,
                  authAtStart, fileAtStart >>

\* lines 45-61
TestKeys ==
  /\ pc = "t_keys"
  /\ IF env.apiKey
     THEN /\ pc' = "t_import"
          /\ UNCHANGED ioVars
     ELSE /\ stdout' = Append(stdout, TLine("TELEGRAM API SETUP"))
          /\ exitCode' = 0
          /\ pc' = "exited"
          /\ UNCHANGED stderr
  /\ UNCHANGED << persistent, runInput, client, loopVars, authVars, opened, authAtStart, fileAtStart >>

\* lines 63-68
TestImport ==
  /\ pc = "t_import"
  /\ IF env.lib
     THEN /\ pc' = "t_client"
          /\ UNCHANGED ioVars
     ELSE /\ stdout' = Append(stdout, TLine("Install telethon first"))
          /\ exitCode' = 0
          /\ pc' = "exited"
          /\ UNCHANGED stderr
  /\ UNCHANGED << persistent, runInput, client, loopVars, authVars, opened, authAtStart, fileAtStart >>

\* lines 71-72; connect() raises when the service cannot be reached
TestClient ==
  /\ pc = "t_client"
  /\ \/ /\ client' = "connected"
        /\ opened' = opened + 1
        /\ pc' = "t_auth"
        /\ UNCHANGED ioVars
     \/ /\ Crash
        /\ UNCHANGED << client, opened, stdout >>
  /\ UNCHANGED << persistent, runInput, loopVars, authVars, authAtStart, fileAtStart >>

\* the script looks at PHONE and CODE without asking whether the session is
\* authorized
TestAuthIgnoresSession ==
  /\ pc = "t_auth"
  /\ IF env.phone = ""
     THEN /\ stdout' = Append(stdout, TLine("First run - need your phone number."))
          /\ client' = "disconnected"
          /\ exitCode' = 0
          /\ pc' = "exited"
          /\ UNCHANGED stderr
     ELSE /\ pc' = IF env.code = "" THEN "t_send_code" ELSE "t_read_hash"
          /\ UNCHANGED << client, ioVars >>
  /\ UNCHANGED << persistent, runInput, loopVars, authVars, opened, authAtStart, fileAtStart >>

\* lines 75-83 and 97: which way the authentication goes
TestAuth ==
  /\ pc = "t_auth"
  /\ IF sessionStore = "Authenticated"
     THEN /\ pc' = "t_connected"
          /\ UNCHANGED << client, ioVars >>
     ELSE IF env.phone = ""
     THEN /\ stdout' = Append(stdout, TLine("First run - need your phone number."))
          /\ client' = "disconnected"
          /\ exitCode' = 0
          /\ pc' = "exited"
          /\ UNCHANGED stderr
     ELSE /\ pc' = IF env.code = "" THEN "t_send_code" ELSE "t_read_hash"
          /\ UNCHANGED << client, ioVars >>
  /\ UNCHANGED << persistent, runInput, loopVars, authVars, opened, authAtStart, fileAtStart >>

\* line 85: the service issues a new handle for the phone, or the request
\* raises (the exception is not caught)
TestSendCode ==
  /\ pc = "t_send_code"
  /\ authCalls' = Append(authCalls, "send_code_request")
  /\ \/ /\ hashCounter < MaxHash
        /\ hashCounter' = hashCounter + 1
        /\ remoteHash' = [remoteHash EXCEPT ![env.phone] = HashText(hashCounter + 1)]
        /\ sent' = HashText(hashCounter + 1)
        /\ pc' = "t_save_hash"
        /\ UNCHANGED ioVars
     \/ /\ Crash
        /\ UNCHANGED << hashCounter, remoteHash, sent, stdout >>
  /\ UNCHANGED << sessionStore, codeHashFile, runInput, client, loopVars,
                  phone_code_hash, fileOps, opened, authAtStart, fileAtStart >>

\* the handle is printed but never written to the file
TestSaveHashSkipsWrite ==
  /\ pc = "t_save_hash"
  /\ stdout' = Append(stdout, TLine("Code sent"))
  /\ client' = "disconnected"
  /\ exitCode' = 0
  /\ pc' = "exited"
  /\ UNCHANGED << persistent, runInput, loopVars, authVars, stderr, opened,
                  authAtStart, fileAtStart >>

\* the file is opened for appending: the new handle follows the old text
TestSaveHashAppends ==
  /\ pc = "t_save_hash"
  /\ codeHashFile' = IF codeHashFile = << >> THEN << sent >>
                     ELSE << codeHashFile[1] \o sent >>
  /\ fileOps' = Append(fileOps, "write")
  /\ stdout' = Append(stdout, TLine("Code sent"))
  /\ client' = "disconnected"
  /\ exitCode' = 0
  /\ pc' = "exited"
  /\ UNCHANGED << sessionStore, remoteHash, hashCounter, runInput, loopVars, sent,
                  phone_code_hash, authCalls, stderr, opened, authAtStart, fileAtStart >>

\* lines 87-96
TestSaveHash ==
  /\ pc = "t_save_hash"
  /\ codeHashFile' = << sent >>
  /\ fileOps' = Append(fileOps, "write")
  /\ stdout' = Append(stdout, TLine("Code sent"))
  /\ client' = "disconnected"
  /\ exitCode' = 0
  /\ pc' = "exited"
  /\ UNCHANGED << sessionStore, remoteHash, hashCounter, runInput, loopVars, sent,
                  phone_code_hash, authCalls, stderr, opened, authAtStart, fileAtStart >>

\* lines 108-111: the handler of the sign-in try block
TestAuthError ==
  /\ stdout' = Append(stdout, TLine("Auth error"))
  /\ client' = "disconnected"
  /\ exitCode' = 0
  /\ pc' = "exited"
  /\ UNCHANGED stderr

\* a missing file is read as an empty handle and the sign-in goes ahead
TestReadHashDefaultsEmpty ==
  /\ pc = "t_read_hash"
  /\ fileOps' = Append(fileOps, "read")
  /\ phone_code_hash' = IF codeHashFile # << >> THEN Strip(codeHashFile[1]) ELSE << >>
  /\ pc' = "t_sign_in"
  /\ UNCHANGED << client, ioVars >>
  /\ UNCHANGED << persistent, runInput, loopVars, sent, authCalls, opened, authAtStart, fileAtStart >>

\* lines 101-102; open() raises when the file does not exist
TestReadHash ==
  /\ pc = "t_read_hash"
  /\ fileOps' = Append(fileOps, "read")
  /\ IF codeHashFile # << >>
     THEN /\ phone_code_hash' = Strip(codeHashFile[1])
          /\ pc' = "t_sign_in"
          /\ UNCHANGED << client, ioVars >>
     ELSE /\ TestAuthError
          /\ UNCHANGED phone_code_hash
  /\ UNCHANGED << persistent, runInput, loopVars, sent, authCalls, opened, authAtStart, fileAtStart >>

\* the service accepts a sign-in when the code is the one it sent last and
\* the handle is the one it issued for that phone
SignInAccepted(phone, code, hash) ==
  code = "good" /\ hash # << >> /\ remoteHash[phone] = hash

\* the handler of a failed sign-in also deletes the pending-verification file
TestSignInFailureRemovesFile ==
  /\ pc = "t_sign_in"
  /\ authCalls' = Append(authCalls, "sign_in")
  /\ \/ /\ SignInAccepted(env.phone, env.code, phone_code_hash)
        /\ sessionStore' = "Authenticated"
        /\ remoteHash' = [remoteHash EXCEPT ![env.phone] = << >>]
        /\ stdout' = Append(stdout, TLine("Authenticated successfully!"))
        /\ pc' = "t_remove_hash"
        /\ UNCHANGED << client, stderr, exitCode, codeHashFile >>
     \/ /\ TestAuthError
        /\ codeHashFile' = << >>
        /\ UNCHANGED << sessionStore, remoteHash >>
  /\ UNCHANGED << hashCounter, runInput, loopVars, sent,
                  phone_code_hash, fileOps, opened, authAtStart, fileAtStart >>

\* lines 103-104: sign_in returns (the session is now authorized and saved),
\* or raises: wrong or expired code, stale handle, password needed, network
TestSignIn ==
  /\ pc = "t_sign_in"
  /\ authCalls' = Append(authCalls, "sign_in")
  /\ \/ /\ SignInAccepted(env.phone, env.code, phone_code_hash)
        /\ sessionStore' = "Authenticated"
        /\ remoteHash' = [remoteHash EXCEPT ![env.phone] = << >>]
        /\ stdout' = Append(stdout, TLine("Authenticated successfully!"))
        /\ pc' = "t_remove_hash"
        /\ UNCHANGED << client, stderr, exitCode >>
     \/ /\ TestAuthError
        /\ UNCHANGED << sessionStore, remoteHash >>
  /\ UNCHANGED << codeHashFile, hashCounter, runInput, loopVars, sent,
                  phone_code_hash, fileOps, opened, authAtStart, fileAtStart >>

\* the file is left in place after a successful sign-in
TestRemoveHashKeepsFile ==
  /\ pc = "t_remove_hash"
  /\ pc' = "t_connected"
  /\ UNCHANGED << persistent, runInput, client, loopVars, authVars, ioVars,
                  opened, authAtStart, fileAtStart >>

\* lines 106-107
TestRemoveHash ==
  /\ pc = "t_remove_hash"
  /\ codeHashFile' = << >>
  /\ fileOps' = Append(fileOps, "remove")
  /\ pc' = "t_connected"
  /\ UNCHANGED << sessionStore, remoteHash, hashCounter, runInput, client, loopVars,
                  sent, phone_code_hash, authCalls, ioVars, opened, authAtStart, fileAtStart >>

\* lines 113-116
TestConnected ==
  /\ pc = "t_connected"
  /\ stdout' = Append(stdout, TLine("Connected to Telegram"))
  /\ channels' = TEST_CHANNELS
  /\ chIdx' = 1
  /\ pc' = "t_resolve"
  /\ UNCHANGED << persistent, runInput, client, examined, msg, results, messages,
                  cutoff, origin, attempted, failedAt, msgCount, authVars, stderr,
                  exitCode, opened, authAtStart, fileAtStart >>

\* the for loop moves to the next channel name, or ends; the message loop
\* variable is not read again before it is bound anew
TestNextChannel ==
  /\ msg' = NoMsg
  /\ chIdx' = chIdx + 1
  /\ examined' = 0
  /\ pc' = IF chIdx + 1 > Len(channels) THEN "t_disconnect" ELSE "t_resolve"

\* lines 144-146: the handler of the channel's try block
TestExcept ==
  /\ stdout' = Append(stdout, [line |-> "Error fetching", handle |-> channels[chIdx]])
  /\ failedAt' = failedAt \cup {<< chIdx, "iter" >>}
  /\ TestNextChannel
  /\ UNCHANGED << stderr, exitCode >>

\* lines 117-127, get_entity returns
TestGetEntity ==
  /\ pc = "t_resolve"
  /\ attempted' = attempted \cup {chIdx}
  /\ stdout' = Append(stdout, [line |-> "Channel", handle |-> channels[chIdx]])
  /\ cutoff' = Now - Window
  /\ messages' = << >>
  /\ examined' = 0
  /\ pc' = "t_iter"
  /\ UNCHANGED << persistent, runInput, client, channels, chIdx, msg, results,
                  origin, failedAt, msgCount, authVars, stderr, exitCode, opened,
                  authAtStart, fileAtStart >>

\* lines 117-123 and 144-146, get_entity raises
TestGetEntityFail ==
  /\ pc = "t_resolve"
  /\ Cardinality(failedAt) < MaxFail
  /\ attempted' = attempted \cup {chIdx}
  /\ stdout' = stdout \o << [line |-> "Channel", handle |-> channels[chIdx]],
                            [line |-> "Error fetching", handle |-> channels[chIdx]] >>
  /\ failedAt' = failedAt \cup {<< chIdx, "resolve" >>}
  /\ TestNextChannel
  /\ UNCHANGED << persistent, runInput, client, channels, results, messages,
                  cutoff, origin, msgCount, authVars, stderr, exitCode, opened,
                  authAtStart, fileAtStart >>

\* line 129, the iterator yields the next message, newest first
TestIterNext ==
  /\ pc = "t_iter"
  /\ examined < TestLimit
  /\ msgCount < MaxMsgs
  /\ \E d \in Dates, t \in Texts :
        msg' = [id |-> MsgId(examined), date |-> d, message |-> t]
  /\ examined' = examined + 1
  /\ msgCount' = msgCount + 1
  /\ pc' = "t_body"
  /\ UNCHANGED << persistent, runInput, client, channels, chIdx, results, messages,
                  cutoff, origin, attempted, failedAt, authVars, ioVars, opened,
                  authAtStart, fileAtStart >>

\* lines 130-131
TestBody ==
  /\ pc = "t_body"
  /\ messages' = IF NewerThanCutoff(msg, cutoff) THEN Append(messages, msg) ELSE messages
  /\ pc' = "t_iter"
  /\ UNCHANGED << persistent, runInput, client, channels, chIdx, examined, msg,
                  results, cutoff, origin, attempted, failedAt, msgCount, authVars,
                  ioVars, opened, authAtStart, fileAtStart >>

\* line 129, the iterator is exhausted; lines 133-142 print the channel
TestIterEnd ==
  /\ pc = "t_iter"
  /\ stdout' = Append(stdout,
        [ line   |-> "Messages in last 24h",
          handle |-> channels[chIdx],
          count  |-> Len(messages),
          shown  |-> Shown(SubSeq(messages, 1,
                       IF Len(messages) < ShowCount THEN Len(messages) ELSE ShowCount)) ])
  /\ TestNextChannel
  /\ UNCHANGED << persistent, runInput, client, channels, results, messages,
                  cutoff, origin, attempted, failedAt, msgCount, authVars, stderr,
                  exitCode, opened, authAtStart, fileAtStart >>

\* line 129 and 144-146, the iterator raises
TestIterRaise ==
  /\ pc = "t_iter"
  /\ Cardinality(failedAt) < MaxFail
  /\ TestExcept
  /\ UNCHANGED << persistent, runInput, client, channels, results, messages,
                  cutoff, origin, attempted, msgCount, authVars, opened, authAtStart, fileAtStart >>

\* lines 148-149
TestDisconnect ==
  /\ pc = "t_disconnect"
  /\ client' = "disconnected"
  /\ stdout' = Append(stdout, TLine("Test complete"))
  /\ exitCode' = 0
  /\ pc' = "exited"
  /\ UNCHANGED << persistent, runInput, loopVars, authVars, stderr, opened, authAtStart, fileAtStart >>

TestStep ==
  \/ TestKeys \/ TestImport \/ TestClient \/ TestAuth \/ TestSendCode
  \/ TestSaveHash \/ TestReadHash \/ TestSignIn \/ TestRemoveHash
  \/ TestConnected \/ TestGetEntity \/ TestGetEntityFail \/ TestIterNext
  \/ TestBody \/ TestIterEnd \/ TestIterRaise \/ TestDisconnect

Next == StartRun \/ FetchStep \/ TestStep \/ EndRun

Spec == Init /\ [][Next]_vars

(***************************************************************************)
(* telegram_fetch.py on one channel with more messages than the limit      *)
(***************************************************************************)
\* the session was authorized by an earlier run of telegram_test.py
InitLong ==
  /\ sessionStore = "Authenticated"
  /\ codeHashFile = << >>
  /\ remoteHash = [p \in Phones \ {""} |-> << >>]
  /\ hashCounter = 1
  /\ pc = "idle"
  /\ FreshRun

\* python scripts/telegram_fetch.py X
StartLongRun ==
  /\ pc = "idle"
  /\ prog' = "fetch"
  /\ env' = [lib |-> TRUE, apiKey |-> TRUE, phone |-> "", code |-> ""]
  /\ argv' = << "X" >>
  /\ pc' = "f_import"
  /\ authAtStart' = sessionStore
  /\ fileAtStart' = codeHashFile
  /\ UNCHANGED << persistent, client, loopVars, authVars, ioVars, opened >>

\* every message of the channel has a text, so a message that was examined
\* and not turned into a post is one older than the cutoff
Skipped == examined - Len(results)

\* the channel holds more than FetchLimit messages, at most MaxOld of them
\* older than the cutoff, at any position
LongDates ==
  IF Skipped < MaxOld THEN {cutoff - 1, cutoff + 1} ELSE {cutoff + 1}

LongIterNext == FetchYield(FetchLimit + 1, LongDates, {"a"})

NextLong ==
  \/ StartLongRun \/ FetchImport \/ FetchChannels \/ FetchClient \/ FetchAuth
  \/ FetchInit \/ FetchGetEntity \/ LongIterNext \/ FetchBody \/ FetchIterEnd
  \/ FetchDisconnect \/ FetchOutput \/ EndRun

SpecLong == InitLong /\ [][NextLong]_vars

(***************************************************************************)
(* Properties                                                              *)
(***************************************************************************)
\* a fetch run has written its document
Emitted == prog = "fetch" /\ pc = "exited" /\ stdout # << >>
Doc == stdout[1]

\* the number of positions of s that hold x
Count(s, x) == Cardinality({ i \in 1..Len(s) : s[i] = x })

\* a and b hold the same elements, each as often
SameBag(a, b) ==
  /\ Len(a) = Len(b)
  /\ \A i \in 1..Len(a) : Count(a, a[i]) = Count(b, a[i])

AllChannels == 1..Len(channels)
ResolveFailed == { f[1] : f \in { g \in failedAt : g[2] = "resolve" } }

\* C1: in a fetch run, a channel whose resolution raises contributes no post,
\* every channel of the list (before and after it) is still attempted, the
\* posts collected from the other channels all appear in the emitted
\* document, and the run ends with a document rather than being aborted.
C1_FailureIsolation ==
  /\ (prog = "fetch" /\ failedAt # {}) =>
        /\ pc # "exited" => stdout = << >> /\ exitCode = 0
        /\ \A k \in 1..Len(origin) : origin[k] \notin ResolveFailed
        /\ \A i \in AllChannels : i < chIdx => i \in attempted
  /\ (prog = "fetch" /\ pc = "exited" /\ failedAt # {}) =>
        /\ Emitted /\ exitCode = 0
        /\ attempted = AllChannels
        /\ Len(origin) = Len(results)
        /\ \A k \in 1..Len(results) :
              results[k].handle = channels[origin[k]].handle
        /\ SameBag(Doc.posts, results)

\* a channel failed to resolve, channels before and after it were read and
\* the document holds their posts
C1_Witness ==
  /\ Emitted
  /\ \E i \in ResolveFailed :
        /\ \E k \in 1..Len(origin) : origin[k] < i
        /\ \E k \in 1..Len(origin) : origin[k] > i
  /\ Doc.post_count = 2

\* C2: in every emitted document post_count is the length of posts and
\* channel_count is the number of descriptors attempted in the run, the
\* failed ones included.
C2_Counts ==
  Emitted =>
    /\ Doc.post_count = Len(Doc.posts)
    /\ Doc.channel_count = Cardinality(attempted)
    /\ Doc.channel_count = Len(channels)
    /\ \A f \in failedAt : f[1] \in attempted

\* a document of a run in which one channel failed and another gave a post
C2_Witness ==
  /\ Emitted
  /\ failedAt # {}
  /\ Doc.post_count > 0
  /\ Doc.channel_count > Cardinality(attempted \ { f[1] : f \in failedAt })

\* C3: in every emitted document posts is in descending order of timestamp:
\* no post's timestamp is less than its successor's.
C3_SortedDescending ==
  Emitted =>
    \A i \in 1..(Len(Doc.posts) - 1) :
       ~ StrLess(Doc.posts[i].timestamp, Doc.posts[i + 1].timestamp)

\* the posts were collected oldest first, so the sort had to reorder them
C3_Witness ==
  /\ Emitted
  /\ Len(results) = 2
  /\ StrLess(results[1].timestamp, results[2].timestamp)
  /\ Doc.posts[1] = results[2]

\* C4: no post collected or emitted has an empty or absent text.
C4_NoEmptyText ==
  /\ prog = "fetch" =>
        \A k \in 1..Len(results) : results[k].text # None /\ results[k].text # ""
  /\ Emitted =>
        \A k \in 1..Len(Doc.posts) : Doc.posts[k].text # None /\ Doc.posts[k].text # ""

\* the message just examined is recent and has an empty body: it left no
\* post, and the post of the message before it is still the only one
C4_Witness ==
  /\ prog = "fetch" /\ pc = "f_iter" /\ examined = 2
  /\ msg.message = "" /\ msg.date >= cutoff
  /\ Len(results) = 1 /\ origin[1] = chIdx

\* C5: no two posts of an emitted document have the same id, whatever list
\* of handles the caller supplies.
C5_UniqueIds ==
  Emitted =>
    \A i, j \in 1..Len(Doc.posts) :
       i # j => Doc.posts[i].id # Doc.posts[j].id

\* the handles of the channel list are pairwise different
DistinctHandles ==
  \A i, j \in AllChannels : i # j => channels[i].handle # channels[j].handle

\* the ids are unique when no handle is listed twice
C5_UniqueIdsDistinctHandles ==
  (Emitted /\ DistinctHandles) =>
    \A i, j \in 1..Len(Doc.posts) :
       i # j => Doc.posts[i].id # Doc.posts[j].id

\* the id telegram_fetch.py gives the post of message m of the current channel
CurrentPostId == "telegram-" \o channels[chIdx].handle \o "-" \o ToString(msg.id)

\* C6: with cutoff = run start minus 24 hours, no post collected or emitted
\* comes from a message dated before the cutoff, and every examined message
\* that has a text and is not older than the cutoff produces a post (with
\* that message's text and date), while an examined message that is older
\* or has no text produces none.
C6_CutoffWindow ==
  /\ (prog = "fetch" /\ chIdx >= 1) => cutoff = Now - Window
  /\ prog = "fetch" =>
        \A k \in 1..Len(results) :
           ~ StrLess(results[k].timestamp, IsoFormat(Now - Window))
  /\ Emitted =>
        \A k \in 1..Len(Doc.posts) :
           ~ StrLess(Doc.posts[k].timestamp, IsoFormat(Now - Window))
  /\ (prog = "fetch" /\ pc = "f_iter" /\ examined > 0) =>
        IF msg.date >= Now - Window /\ msg.message # None /\ msg.message # ""
        THEN /\ results # << >>
             /\ results[Len(results)].id = CurrentPostId
             /\ results[Len(results)].text = msg.message
             /\ results[Len(results)].timestamp = IsoFormat(msg.date)
             /\ origin[Len(origin)] = chIdx
        ELSE \A k \in 1..Len(results) :
                origin[k] = chIdx => results[k].id # CurrentPostId

\* a channel gave a message dated exactly at the cutoff, which was kept, and
\* then one dated an hour earlier, which was not
C6_Witness ==
  /\ prog = "fetch" /\ pc = "f_iter" /\ examined = 2
  /\ msg.date < cutoff /\ msg.message = "a"
  /\ Len(results) = 1 /\ origin[1] = chIdx
  /\ results[1].timestamp = IsoFormat(cutoff)

\* positions of telegram_test.py inside the authentication branch
AuthPcs == {"t_send_code", "t_save_hash", "t_read_hash", "t_sign_in", "t_remove_hash"}
\* positions of either script inside the channel loop
LoopPcs == {"f_resolve", "f_iter", "f_body", "t_resolve", "t_iter", "t_body"}

C8Run ==
  prog = "test" /\ authAtStart = "Unauthenticated" /\ env.phone # "" /\ env.code = ""

\* C8 as stated: such a run requests a code, persists the returned handle,
\* ends in CodeRequested, fetches no channel and leaves the session store
\* unmodified.
C8_Original ==
  (C8Run /\ pc = "exited") =>
    /\ authCalls = << "send_code_request" >>
    /\ sent # << >> /\ codeHashFile = << sent >>
    /\ attempted = {}
    /\ sessionStore = "Unauthenticated"

\* C8, amended: such a run fetches no channel, signs in nowhere and leaves
\* the session store unmodified; once its client is connected it requests a
\* code; when the request returns a handle the run writes that handle to the
\* pending-verification file and ends in CodeRequested, and when the request
\* raises the file is left as it was.
C8_CodeRequested ==
  /\ C8Run =>
        /\ attempted = {} /\ sessionStore = "Unauthenticated"
        /\ pc \notin LoopPcs \cup {"t_read_hash", "t_sign_in", "t_remove_hash", "t_connected"}
  /\ (C8Run /\ pc = "exited" /\ client # "none") =>
        authCalls = << "send_code_request" >>
  /\ (C8Run /\ pc = "exited" /\ sent # << >>) =>
        /\ codeHashFile = << sent >> /\ fileOps = << "write" >>
        /\ remoteHash[env.phone] = sent
        /\ client = "disconnected" /\ exitCode = 0
  /\ (C8Run /\ pc = "exited" /\ sent = << >>) =>
        codeHashFile = fileAtStart /\ fileOps = << >>

\* the run replaced an older pending handle by the one just returned
C8_Witness ==
  /\ C8Run /\ pc = "exited"
  /\ fileAtStart # << >> /\ codeHashFile = << sent >> /\ codeHashFile # fileAtStart
  /\ sessionStore = "Unauthenticated"

\* C9: the standard output of a fetch run holds nothing until the run ends,
\* and then either nothing (the run stopped at startup, with a non-zero
\* status, before any channel) or exactly one complete document, written
\* after every channel was attempted; the diagnostics are on standard error
\* only.
C9_NoPartialOutput ==
  prog = "fetch" =>
    /\ pc # "exited" => stdout = << >>
    /\ stdout # << >> =>
          /\ Len(stdout) = 1 /\ exitCode = 0
          /\ channels # << >> /\ attempted = AllChannels
          /\ client = "disconnected"
          /\ DOMAIN Doc = {"fetched_at", "channel_count", "post_count", "posts"}
          /\ Doc.channel_count = Len(channels)
          /\ Doc.post_count = Len(results)
          /\ SameBag(Doc.posts, results)
    /\ (pc = "exited" /\ stdout = << >>) => (exitCode = 1 /\ attempted = {})
    /\ \A i \in 1..Len(stdout) : "line" \notin DOMAIN stdout[i]
    /\ \A f \in failedAt :
          \E i \in 1..Len(stderr) : stderr[i] = ErrorLine(channels[f[1]].handle)

\* a run in which a channel failed wrote its diagnostic and its document
C9_Witness ==
  /\ Emitted
  /\ failedAt # {} /\ Len(stderr) = 1
  /\ Doc.post_count = 2

\* a run that has no authorized session and lacks the phone or the API key
\* pair
C10Run ==
  prog # "none" /\ authAtStart = "Unauthenticated" /\ (env.phone = "" \/ ~ env.apiKey)

\* C10: such a run issues no code request and no sign-in, fetches no channel,
\* opens at most one client and never enters the authentication branch or
\* the channel loop, and leaves the session store and the
\* pending-verification file as they were.
C10_HardStop ==
  C10Run =>
    /\ authCalls = << >>
    /\ attempted = {} /\ results = << >> /\ messages = << >>
    /\ pc \notin AuthPcs \cup LoopPcs
    /\ opened <= 1
    /\ sessionStore = authAtStart
    /\ fileOps = << >> /\ codeHashFile = fileAtStart
    /\ (prog = "fetch" => stdout = << >>)

\* telegram_test.py was run in CodeRequested with a code but no phone: it
\* connected, stopped, and the pending handle is still there
C10_Witness ==
  /\ C10Run /\ prog = "test" /\ pc = "exited"
  /\ env.apiKey /\ env.code = "good"
  /\ client = "disconnected"
  /\ fileAtStart # << >> /\ codeHashFile = fileAtStart

\* a run that ended on an unrecoverable startup failure: the library is
\* missing, the API key pair is absent with no authorized session, or the
\* session is not authorized and the script cannot authenticate
StartupFailure ==
  /\ prog # "none" /\ pc = "exited"
  /\ \/ ~ env.lib
     \/ ~ env.apiKey /\ authAtStart = "Unauthenticated"
     \/ authAtStart = "Unauthenticated" /\ (prog = "fetch" \/ env.phone = "")

\* C11: every unrecoverable startup failure ends the run with a diagnostic
\* message and a non-zero exit status, in both scripts.
C11_StartupFailureExit ==
  StartupFailure =>
    /\ stdout # << >> \/ stderr # << >>
    /\ exitCode # 0

\* the same for telegram_fetch.py alone, with the diagnostic on standard error
C11_FetchStartupFailureExit ==
  (StartupFailure /\ prog = "fetch") =>
    /\ stderr # << >> /\ stdout = << >>
    /\ exitCode = 1

\* C12 as stated: the iteration of a channel stops at the limit or at the
\* first message older than the window, so that a message being examined has
\* no older-than-cutoff message before it, and no channel contributes more
\* than limit posts.
C12_Original ==
  prog = "fetch" =>
    /\ examined <= FetchLimit /\ Len(results) <= FetchLimit
    /\ pc = "f_body" => examined - 1 = Len(results)

\* C12: the iteration of a channel stops only at the limit or at the end of
\* the history; a message older than the window is skipped and the messages
\* after it are still examined and, when not older than the cutoff, turned
\* into posts; no message older than the cutoff is turned into a post and no
\* channel contributes more than limit posts.
C12_LimitNoEarlyStop ==
  prog = "fetch" =>
    /\ examined <= FetchLimit /\ Len(results) <= FetchLimit
    /\ pc \in {"f_iter", "f_body"} => Len(results) <= examined
    /\ \A i \in 1..Len(results) : ~ StrLess(results[i].timestamp, IsoFormat(cutoff))
    /\ (pc = "f_iter" /\ examined > 0 /\ ~ OlderThanCutoff(msg, cutoff)) =>
          /\ results # << >>
          /\ results[Len(results)].id = CurrentPostId

\* the limit is reached and the last message, which came after one older
\* than the cutoff, was turned into a post
C12_Witness ==
  /\ prog = "fetch" /\ pc = "f_iter"
  /\ examined = FetchLimit
  /\ Skipped > 0
  /\ ~ OlderThanCutoff(msg, cutoff)
  /\ results[Len(results)].id = CurrentPostId

\* a run of telegram_test.py that called sign_in and saw it raise
SignInFailed ==
  /\ prog = "test" /\ pc = "exited"
  /\ authCalls = << "sign_in" >>
  /\ \A i \in 1..Len(stdout) : stdout[i] # TLine("Authenticated successfully!")

\* C13: a failed code exchange reports the error, fetches no channel, leaves
\* the session not authenticated and the pending-verification file as the
\* code request left it, so that a later run with the right code is accepted
\* with the handle read from it.
C13_FailedExchange ==
  SignInFailed =>
    /\ stdout[Len(stdout)] = TLine("Auth error")
    /\ attempted = {}
    /\ sessionStore = "Unauthenticated"
    /\ fileAtStart # << >> /\ codeHashFile = fileAtStart
    /\ fileOps = << "read" >>
    /\ SignInAccepted(env.phone, "good", Strip(codeHashFile[1]))

\* a run with a wrong code has failed on the handle of the first code
\* request, and the file still holds the handle the service expects
C13_Witness ==
  /\ SignInFailed
  /\ env.code = "bad"
  /\ codeHashFile = << HashText(1) >>
  /\ hashCounter = 1
  /\ SignInAccepted(env.phone, "good", Strip(codeHashFile[1]))

\* a run of telegram_test.py whose sign_in returned
SignInSucceeded ==
  /\ prog = "test"
  /\ \E i \in 1..Len(stdout) : stdout[i] = TLine("Authenticated successfully!")

\* C14: a successful code exchange is made with the phone and code of the run
\* and the handle read from the pending-verification file, authorizes the
\* session, deletes the file and goes on to fetch the channels in the same
\* run; between runs the file exists only if a code was requested and the
\* handle it holds has not been used for a successful sign-in.
C14_SuccessfulExchange ==
  /\ SignInSucceeded =>
       /\ authAtStart = "Unauthenticated" /\ sessionStore = "Authenticated"
       /\ authCalls = << "sign_in" >>
       /\ env.phone # "" /\ env.code = "good"
       /\ fileAtStart # << >> /\ phone_code_hash = Strip(fileAtStart[1])
       /\ pc # "t_remove_hash" =>
             codeHashFile = << >> /\ fileOps = << "read", "remove" >>
       /\ pc = "exited" => attempted = AllChannels /\ channels = TEST_CHANNELS
  /\ (pc \in {"idle", "exited"} /\ codeHashFile # << >>) =>
       /\ hashCounter >= 1
       /\ sessionStore = "Unauthenticated"
       /\ \E p \in Phones \ {""} : remoteHash[p] = Strip(codeHashFile[1])

\* the run signed in, deleted the file and went through every channel
C14_Witness ==
  /\ SignInSucceeded /\ pc = "exited"
  /\ fileAtStart # << >> /\ codeHashFile = << >>
  /\ sessionStore = "Authenticated"
  /\ attempted = AllChannels /\ attempted # {}

\* the posts of s that carry timestamp t, in the order of s
WithTimestamp(s, t) == SelectSeq(s, LAMBDA q : q.timestamp = t)

\* C15: posts with the same timestamp appear in the emitted document in the
\* order in which they were collected.
C15_StableOrder ==
  Emitted =>
    \A i \in 1..Len(results) :
       WithTimestamp(Doc.posts, results[i].timestamp)
         = WithTimestamp(results, results[i].timestamp)

\* two different posts with the same timestamp were collected and emitted
C15_Witness ==
  /\ Emitted
  /\ \E i, j \in 1..Len(results) :
        /\ i < j
        /\ results[i].timestamp = results[j].timestamp
        /\ results[i].id # results[j].id

\* positions of telegram_fetch.py inside the channel loop
FetchLoopPcs == {"f_resolve", "f_iter", "f_body"}

\* C16: in a fetch run the channels are taken one after another in list
\* order on one client: the channels begun so far are exactly those up to the
\* current one, every earlier channel has finished or failed, the posts lie in
\* channel order, one client was opened, it is connected throughout the loop
\* and nothing is fetched once it is disconnected.
C16_Sequential ==
  prog = "fetch" =>
    /\ opened <= 1
    /\ pc \in FetchLoopPcs \cup {"f_auth", "f_init", "f_disconnect", "f_output"} =>
          opened = 1
    /\ pc \in FetchLoopPcs \cup {"f_auth", "f_init", "f_disconnect"} =>
          client = "connected"
    /\ client = "disconnected" => pc \in {"f_output", "exited"}
    /\ pc \in FetchLoopPcs =>
          /\ chIdx \in AllChannels
          /\ attempted = IF pc = "f_resolve" THEN 1..(chIdx - 1) ELSE 1..chIdx
          /\ \A f \in failedAt : f[1] < chIdx
          /\ \A i \in 1..Len(origin) : origin[i] <= chIdx
    /\ \A i, j \in 1..Len(origin) : i < j => origin[i] <= origin[j]
    /\ pc \in {"f_disconnect", "f_output"} => attempted = AllChannels

\* the second channel is being fetched after the first one contributed a
\* post, on the one client of the run
C16_Witness ==
  /\ prog = "fetch" /\ pc = "f_body"
  /\ chIdx = 2 /\ origin = << 1 >>
  /\ opened = 1 /\ client = "connected"

\* the channels that have failed, at either stage
FailedChannels == { f[1] : f \in failedAt }

\* one line per failed channel among the first n, in channel order
RECURSIVE DiagLines(_)
DiagLines(n) ==
  IF n = 0 THEN << >>
  ELSE DiagLines(n - 1) \o
       (IF n \in FailedChannels THEN << ErrorLine(channels[n].handle) >> ELSE << >>)

\* C17: in a fetch run that reached the channel loop, standard error holds
\* exactly one line per failed channel, carrying its handle, and nothing for
\* the others; a channel fails at one stage only and is behind the loop
\* position from then on.
C17_OneLinePerFailure ==
  (prog = "fetch" /\ (pc \in FetchLoopPcs \cup {"f_disconnect", "f_output"} \/ Emitted)) =>
    /\ stderr = DiagLines(Len(channels))
    /\ Len(stderr) = Cardinality(FailedChannels)
    /\ Cardinality(failedAt) = Cardinality(FailedChannels)
    /\ \A n \in FailedChannels : n \in attempted /\ n < chIdx

\* of two channels one failed while iterating and the other did not
C17_Witness ==
  /\ Emitted
  /\ Len(channels) = 2
  /\ failedAt = {<< 1, "iter" >>}
  /\ stderr = << ErrorLine(channels[1].handle) >>
  /\ \E i \in 1..Len(origin) : origin[i] = 2

\* s is an initial part of t
IsPrefix(s, t) == Len(s) <= Len(t) /\ SubSeq(t, 1, Len(s)) = s

\* C18: while a fetch run lasts no step removes a collected post, the step
\* of a channel's exception handler included, and the emitted document holds
\* all the collected posts, those of a channel that raised later among them.
C18_NothingRemoved ==
  /\ [][(prog = "fetch" /\ pc # "exited") => IsPrefix(results, results')]_vars
  /\ [][(prog = "fetch" /\ pc # "exited" /\ failedAt' # failedAt) => results' = results]_vars
  /\ [](Emitted => SameBag(Doc.posts, results))

\* a channel raised after one of its messages had become a post, and the
\* post is in the emitted document
C18_Witness ==
  /\ Emitted
  /\ \E f \in failedAt :
        /\ f[2] = "iter"
        /\ \E i \in 1..Len(origin) :
              /\ origin[i] = f[1]
              /\ \E k \in 1..Len(Doc.posts) : Doc.posts[k] = results[i]

\* a run of telegram_test.py that starts with a session that is not
\* authorized, a phone and a code, and no pending-verification file
C19Run ==
  /\ prog = "test" /\ authAtStart = "Unauthenticated"
  /\ env.phone # "" /\ env.code # ""
  /\ fileAtStart = << >>

\* C19 as stated: such a run attempts no sign-in, reports an auth error,
\* fetches no channel and leaves the session and the file as they were.
C19_Original ==
  (C19Run /\ pc = "exited") =>
    /\ authCalls = << >>
    /\ \E i \in 1..Len(stdout) : stdout[i] = TLine("Auth error")
    /\ attempted = {}
    /\ sessionStore = "Unauthenticated" /\ codeHashFile = << >>

\* C19, amended: such a run makes no call to the service's authentication,
\* fetches no channel and leaves the session and the file as they were; once
\* its client is connected it tries to read the file, reports an auth error
\* and ends.
C19_NoPendingFile ==
  /\ C19Run =>
        /\ authCalls = << >> /\ attempted = {}
        /\ sessionStore = "Unauthenticated" /\ codeHashFile = << >>
        /\ pc \notin LoopPcs \cup {"t_send_code", "t_save_hash", "t_sign_in",
                                   "t_remove_hash", "t_connected"}
  /\ (C19Run /\ pc = "exited" /\ client # "none") =>
        /\ stdout[Len(stdout)] = TLine("Auth error")
        /\ fileOps = << "read" >>
        /\ client = "disconnected" /\ exitCode = 0

\* the run with the right code and no file has ended on the auth error
C19_Witness ==
  /\ C19Run /\ pc = "exited"
  /\ env.code = "good"
  /\ fileOps = << "read" >>
  /\ stdout[Len(stdout)] = TLine("Auth error")

\* C20: the pending-verification file, when it exists, holds exactly the
\* handle returned by the most recent code request (the write of a request
\* that has just returned is the next step of that run), and a sign-in is
\* attempted with that handle.
C20_LatestHandle ==
  /\ (codeHashFile # << >> /\ pc # "t_save_hash") =>
        codeHashFile = << HashText(hashCounter) >>
  /\ pc = "t_save_hash" => sent = HashText(hashCounter)
  /\ (pc = "t_sign_in" \/ (prog = "test" /\ authCalls = << "sign_in" >>)) =>
        phone_code_hash = HashText(hashCounter)

\* after two code requests the sign-in is about to be made with the second
\* handle
C20_Witness ==
  /\ pc = "t_sign_in"
  /\ hashCounter = 2
  /\ phone_code_hash = HashText(2)
  /\ phone_code_hash # HashText(1)

====
